---- MODULE Spec2Model ----
(***************************************************************************)
(* The request lifecycle of the Flask application in src/src/app.py:       *)
(* before_request, routing and the view functions, the error handlers and  *)
(* after_request, driven by a wall clock that may step in either direction *)
(* and, under SpecFault, by time functions that may raise.                 *)
(*                                                                         *)
(* Text values (messages, request ids, timestamps, header values) are      *)
(* sequences of string atoms, so that "" is << >>, three spaces are        *)
(* << " ", " ", " " >>, and concatenation is \o.  An optional value (an    *)
(* absent query parameter, an absent header, an unset attribute of g) is   *)
(* a sequence of length 0 or 1 holding the value.                          *)
(***************************************************************************)
EXTENDS Integers, Sequences, FiniteSets, TLC

\* ---------------------------------------------------------------- bounds

\* The wall clock ranges over 0..MaxClock ticks.
MaxClock == 2

\* Ticks of the wall clock per millisecond (the clock is finer than the
\* millisecond the generated request id keeps).
TicksPerMs == 2

\* Requests begun in one run.
MaxRequests == 2

\* ----------------------------------------------------------------- state

VARIABLES
    clock,           \* the wall clock, in ticks
    app_start_time,  \* app.start_time, when the attribute is set
    req,             \* per request slot: phase, input, g, response, log
    nBegun,          \* requests begun so far
    issued,          \* the request ids assigned to requests that supplied none
    nIssued,         \* how many such requests there were
    last,            \* the outcome of the latest request returned: its status,
                     \* 0 for an exception, -1 before the first
    prevUptime,      \* uptime_seconds of the healthy answer returned just
                     \* before the health call in progress, when there is one
    inv,             \* per slot: the invocation of lambda_handler in progress
    emitted          \* the latest call of a logger method and what came of it

vars == << clock, app_start_time, req, nBegun, issued, nIssued, last,
           prevUptime, inv, emitted >>

\* ------------------------------------------------------------------ text

None == << >>

Some(v) == << v >>

IsSet(opt) == Len(opt) > 0

Get(opt) == opt[1]

DigitChars == << "0", "1", "2", "3", "4", "5", "6", "7", "8", "9" >>

IsDigit(c) == \E i \in 1..10 : DigitChars[i] = c

RECURSIVE Digits(_)
\* str() of a natural number
Digits(n) ==
    IF n < 10 THEN << DigitChars[n + 1] >>
    ELSE Digits(n \div 10) \o << DigitChars[(n % 10) + 1] >>

\* str() of a Python int
IntStr(n) == IF n < 0 THEN << "-" >> \o Digits(-n) ELSE Digits(n)

\* round(ticks / TicksPerMs, 2) as a count of hundredths of a millisecond,
\* on the magnitude of the difference
Hundredths(mag) == (200 * mag + TicksPerMs) \div (2 * TicksPerMs)

\* str() of the Python float round(d * 1000, 2), d a difference of two clock
\* reads given in ticks: sign, integer part, ".", one or two decimals
FloatStr(ticks) ==
    LET mag  == IF ticks < 0 THEN -ticks ELSE ticks
        h    == Hundredths(mag)
        frac == h % 100
        decimals == IF frac % 10 = 0 THEN Digits(frac \div 10)
                    ELSE << DigitChars[(frac \div 10) + 1], DigitChars[(frac % 10) + 1] >>
    IN  (IF ticks < 0 THEN << "-" >> ELSE << >>)
            \o Digits(h \div 100) \o << "." >> \o decimals

\* datetime.utcnow().isoformat(): date and time of day, then the sub-second
\* digits, taken from the wall clock
IsoDate == "1970-01-01T00:00:00."

IsoFormat(now) == << IsoDate >> \o Digits(now)

\* datetime.utcnow().isoformat() + "Z"
Timestamp(now) == IsoFormat(now) \o << "Z" >>

Unknown == << "unknown" >>

ReqError == << "req-error" >>

\* f"req-{int(get_current_time() * 1000)}"
GeneratedId(now) == << "req-" >> \o IntStr(now \div TicksPerMs)

HelloWorld == << "Hello", " ", "World" >>

Version == << "1.0.0" >>

MsgRequired == << "Parameter 'msg' is required" >>

NotFoundError == << "Endpoint not found" >>

InternalError == << "Internal server error" >>

HealthFailed == << "Health check failed" >>

\* ------------------------------------------------------------ exceptions

\* Exception("Time error"): what a failing time function raises
TimeError == [http |-> FALSE, code |-> 0, msg |-> "Time error"]

\* werkzeug.exceptions.NotFound, raised by routing for an unknown path
NotFoundExc == [http |-> TRUE, code |-> 404, msg |-> "404 Not Found"]

\* werkzeug.exceptions.MethodNotAllowed, raised by routing for a known path
\* requested with a method outside the route's methods
MethodNotAllowedExc == [http |-> TRUE, code |-> 405, msg |-> "405 Method Not Allowed"]

\* werkzeug.exceptions.InternalServerError wrapping an unhandled exception
ServerErrorExc == [http |-> TRUE, code |-> 500, msg |-> "500 Internal Server Error"]

Raise(e, g, log) == [raised |-> TRUE, exc |-> e, g |-> g, log |-> log]

Respond(status, body, g, log) ==
    [raised |-> FALSE, status |-> status, body |-> body, g |-> g, log |-> log]

\* --------------------------------------------------------------- logging

\* One record of the logger "src.app"
LogRecord(level, message) == [level |-> level, message |-> message]

\* ------------------------------------------------------- request context

\* The route table of the application
KnownPaths == { "/hello", "/echo", "/health" }

\* Mutant of BeforeRequest: the X-Request-ID request header is not read
BeforeRequestIgnoresHeader(in, now, oks) ==
    [ g |-> [ start_time     |-> IF oks[1] THEN now ELSE 0,
              request_id     |-> IF oks[2] THEN GeneratedId(now) ELSE ReqError,
              endpoint_log   |-> None,
              monitoring_log |-> None ],
      log |-> IF oks[3] THEN << LogRecord("INFO", << "Incoming request" >>) >>
              ELSE << >> ]

\* @app.before_request.  oks[i] tells whether the i-th use of a time
\* function in the callback returns (TRUE) or raises (FALSE): the two reads
\* of get_current_time(), then the creation of the log record.
BeforeRequest(in, now, oks) ==
    [ g |-> [ start_time     |-> IF oks[1] THEN now ELSE 0,
              request_id     |-> IF oks[2]
                                 THEN (IF IsSet(in.hdr) THEN Get(in.hdr)
                                       ELSE GeneratedId(now))
                                 ELSE ReqError,
              endpoint_log   |-> None,
              monitoring_log |-> None ],
      log |-> IF oks[3] THEN << LogRecord("INFO", << "Incoming request" >>) >>
              ELSE << >> ]

\* ----------------------------------------------------------------- views

\* Mutant of Hello: an error returned earlier by the process sticks
HelloAfterError(g, log, now) ==
    IF last \in { 400, 404 }
    THEN Respond(500,
                 [ error       |-> InternalError,
                   status_code |-> 500,
                   timestamp   |-> Timestamp(now),
                   request_id  |-> g.request_id ],
                 g, log)
    ELSE Respond(200,
                 [ message    |-> HelloWorld,
                   timestamp  |-> Timestamp(now),
                   version    |-> Version,
                   request_id |-> g.request_id ],
                 [ g EXCEPT !.endpoint_log =
                       Some(<< "Hello endpoint accessed successfully" >>) ],
                 log)

\* hello(): nothing in its try block uses a time function, so its except
\* branch is not entered
Hello(g, log, now) ==
    Respond(200,
            [ message    |-> HelloWorld,
              timestamp  |-> Timestamp(now),
              version    |-> Version,
              request_id |-> g.request_id ],
            [ g EXCEPT !.endpoint_log =
                  Some(<< "Hello endpoint accessed successfully" >>) ],
            log)

\* Mutant of Falsy: the message is stripped of spaces before the test
FalsyStripped(opt) ==
    ~IsSet(opt) \/ \A i \in 1..Len(Get(opt)) : Get(opt)[i] = " "

\* "if not msg": msg is None or the empty string
Falsy(opt) == ~IsSet(opt) \/ Len(Get(opt)) = 0

ErrorBody(error, code, now, g) ==
    [ error       |-> error,
      status_code |-> code,
      timestamp   |-> Timestamp(now),
      request_id  |-> g.request_id ]

\* Mutant of Echo: only an absent msg is refused ("if msg is None")
EchoNoneOnly(in, g, log, now, oks) ==
    IF ~IsSet(in.msg)
    THEN Respond(400, ErrorBody(MsgRequired, 400, now, g), g,
                 Append(log, LogRecord("WARNING",
                     << "Echo endpoint accessed without msg parameter" >>)))
    ELSE Respond(200,
                 [ message    |-> Get(in.msg),
                   echo       |-> TRUE,
                   timestamp  |-> Timestamp(now),
                   request_id |-> g.request_id ],
                 [ g EXCEPT !.endpoint_log =
                       Some(<< "Echo endpoint accessed with message: " >> \o Get(in.msg)),
                            !.monitoring_log =
                       Some(<< "Echo endpoint processed successfully" >>) ],
                 log)

\* echo().  oks[1]: logger.warning on the 400 path; oks[2]: logger.error in
\* the except branch.
Echo(in, g, log, now, oks) ==
    IF Falsy(in.msg)
    THEN IF oks[1]
         THEN Respond(400, ErrorBody(MsgRequired, 400, now, g), g,
                      Append(log, LogRecord("WARNING",
                          << "Echo endpoint accessed without msg parameter" >>)))
         ELSE IF oks[2]
              THEN Respond(500, ErrorBody(InternalError, 500, now, g), g,
                           Append(log, LogRecord("ERROR", << "Error in echo endpoint" >>)))
              ELSE Raise(TimeError, g, log)
    ELSE Respond(200,
                 [ message    |-> Get(in.msg),
                   echo       |-> TRUE,
                   timestamp  |-> Timestamp(now),
                   request_id |-> g.request_id ],
                 [ g EXCEPT !.endpoint_log =
                       Some(<< "Echo endpoint accessed with message: " >> \o Get(in.msg)),
                            !.monitoring_log =
                       Some(<< "Echo endpoint processed successfully" >>) ],
                 log)

UnhealthyBody(now, g) ==
    [ status     |-> << "unhealthy" >>,
      error      |-> HealthFailed,
      timestamp  |-> Timestamp(now),
      request_id |-> g.request_id ]

\* The payload of a healthy answer.  No system metric is asserted by any
\* claim: the measured values stand as 0.
HealthyBody(now, g, start, env) ==
    [ status         |-> << "healthy" >>,
      timestamp      |-> Timestamp(now),
      version        |-> Version,
      environment    |-> << "development" >>,
      request_id     |-> g.request_id,
      uptime_seconds |-> IF IsSet(start) THEN now - Get(start) ELSE 0,
      checks         |-> [ application  |-> << "ok" >>,
                           memory       |-> << "ok" >>,
                           dependencies |-> << "ok" >> ],
      metrics        |-> IF env.psutil = "absent"
                         THEN [ note |-> << "System metrics unavailable" >> ]
                         ELSE [ memory_usage_mb |-> 0,
                                cpu_percent     |-> 0,
                                open_files      |-> 0 ] ]

\* The payload of the outer except when its own timestamp cannot be built
UnhealthyUnknownBody(g) ==
    [ status     |-> << "unhealthy" >>,
      error      |-> HealthFailed,
      timestamp  |-> Unknown,
      request_id |-> g.request_id ]

\* Mutant of Health: an error returned earlier by the process makes the
\* process report itself unhealthy
HealthAfterError(g, log, now, oks, start, env) ==
    IF ~env.utcnow
    THEN Respond(503, UnhealthyUnknownBody(g), g, log)
    ELSE IF ~oks[1] \/ env.psutil = "error" \/ last \in { 400, 404 }
    THEN Respond(503, UnhealthyBody(now, g), g, log)
    ELSE Respond(200, HealthyBody(now, g, start, env), g, log)

\* Mutant of Health: a missing psutil is a failure like any other
HealthNeedsMetrics(g, log, now, oks, start, env) ==
    IF ~env.utcnow
    THEN Respond(503, UnhealthyUnknownBody(g), g, log)
    ELSE IF ~oks[1] \/ env.psutil # "ok"
    THEN Respond(503, UnhealthyBody(now, g), g, log)
    ELSE Respond(200, HealthyBody(now, g, start, env), g, log)

\* Mutant of Health: an exception of psutil is not caught by health()
HealthUnguardedMetrics(g, log, now, oks, start, env) ==
    IF ~env.utcnow
    THEN Respond(503, UnhealthyUnknownBody(g), g, log)
    ELSE IF ~oks[1]
    THEN Respond(503, UnhealthyBody(now, g), g, log)
    ELSE IF env.psutil = "error"
    THEN Raise(ServerErrorExc, g, log)
    ELSE Respond(200, HealthyBody(now, g, start, env), g, log)

\* health().  oks[1]: the read of get_current_time(); start: app.start_time
\* when the attribute is set; env.psutil: what importing and querying psutil
\* does ("ok", "absent": ImportError, "error": any other exception);
\* env.utcnow: whether datetime.utcnow() returns.  When it raises, whichever
\* branch builds the payload raises into the outer except, whose own
\* timestamp falls back to "unknown".
Health(g, log, now, oks, start, env) ==
    IF ~env.utcnow
    THEN Respond(503, UnhealthyUnknownBody(g), g, log)
    ELSE IF ~oks[1]
    THEN Respond(503, UnhealthyBody(now, g), g, log)
    ELSE IF env.psutil = "error"
    THEN Respond(503, UnhealthyBody(now, g), g, log)
    ELSE Respond(200, HealthyBody(now, g, start, env), g, log)

\* -------------------------------------------------------- error handlers

\* @app.errorhandler(404).  oks[1]: logger.warning, which is not guarded.
NotFound(g, log, now, oks) ==
    IF oks[1]
    THEN Respond(404, ErrorBody(NotFoundError, 404, now, g), g,
                 Append(log, LogRecord("WARNING", << "404 error occurred" >>)))
    ELSE Raise(TimeError, g, log)

\* @app.errorhandler(Exception)
HandleException(e, path, g, log) ==
    IF e.msg = "Time error" /\ path = "/health"
    THEN Respond(503,
                 [ status     |-> << "unhealthy" >>,
                   error      |-> HealthFailed,
                   timestamp  |-> Unknown,
                   request_id |-> Unknown ],
                 g, log)
    ELSE IF e.http
    THEN Raise(e, g, log)
    ELSE Respond(500,
                 [ error       |-> InternalError,
                   status_code |-> 500,
                   timestamp   |-> Unknown,
                   request_id  |-> Unknown ],
                 g, log)

\* ------------------------------------------------------------- dispatch

\* The view a request is routed to by the @app.route decorators, or the
\* routing exception: every route is registered with methods=["GET"].
Route(in, g, log, now, oks, start, env) ==
    IF in.path \notin KnownPaths THEN Raise(NotFoundExc, g, log)
    ELSE IF in.method # "GET" THEN Raise(MethodNotAllowedExc, g, log)
    ELSE IF in.path = "/hello" THEN Hello(g, log, now)
    ELSE IF in.path = "/echo" THEN Echo(in, g, log, now, oks)
    ELSE Health(g, log, now, oks, start, env)

\* Mutant of ErrorHandler: no handler is registered for 404
ErrorHandlerWithout404(e, path, g, log, now, oks) ==
    HandleException(e, path, g, log)

\* The registered error handler an exception is given to: the handler of
\* its HTTP code when one is registered (404), else the handler of the
\* nearest registered class, which is Exception for every exception.
ErrorHandler(e, path, g, log, now, oks) ==
    IF e.http /\ e.code = 404
    THEN NotFound(g, log, now, oks)
    ELSE HandleException(e, path, g, log)

\* An exception leaving an error handler is not handled again within the
\* request: with exceptions propagated (testing or debug) it is re-raised,
\* otherwise it is wrapped in InternalServerError and given to the handler
\* registered for it, which is handle_exception once more.
Unhandled(r, path, propagate) ==
    IF propagate THEN r
    ELSE HandleException(ServerErrorExc, path, r.g, r.log)

\* The view or, when routing or the view raised, the error handler.
FullDispatch(in, g, log, now, oks, start, env, propagate) ==
    LET routed == Route(in, g, log, now, oks, start, env)
    IN  IF ~routed.raised THEN routed
        ELSE LET handled == ErrorHandler(routed.exc, in.path, routed.g,
                                         routed.log, now, oks)
             IN  IF ~handled.raised THEN handled
                 ELSE Unhandled(handled, in.path, propagate)

\* Mutant of AfterRequest: the endpoint message of the request before is
\* logged again when the request has none of its own
AfterRequestStaleEndpointLog(g, log, now, oks) ==
    LET log1 == Append(log, LogRecord("INFO", << "Request completed" >>))
        log2 == IF IsSet(g.monitoring_log)
                THEN Append(log1, LogRecord("INFO", Get(g.monitoring_log)))
                ELSE log1
        log3 == IF IsSet(g.endpoint_log)
                THEN Append(log2, LogRecord("INFO", Get(g.endpoint_log)))
                ELSE IF last = 200
                THEN Append(log2, LogRecord("INFO",
                         << "Hello endpoint accessed successfully" >>))
                ELSE log2
    IN  [ headers |-> [ XRequestID    |-> g.request_id,
                        XResponseTime |-> FloatStr(now - g.start_time) ],
          log |-> log3 ]

\* Mutant of AfterRequest: the context is one object of the process, which
\* the latest before_request of a request still in flight has overwritten
AfterRequestSharedContext(g, log, now, oks) ==
    LET others == { s \in DOMAIN req :
                      req[s].phase \in { "begun", "dispatched" } /\ req[s].g # g }
        h    == IF others = {} THEN g ELSE req[CHOOSE s \in others : TRUE].g
        log1 == Append(log, LogRecord("INFO", << "Request completed" >>))
        log2 == IF IsSet(h.monitoring_log)
                THEN Append(log1, LogRecord("INFO", Get(h.monitoring_log)))
                ELSE log1
        log3 == IF IsSet(h.endpoint_log)
                THEN Append(log2, LogRecord("INFO", Get(h.endpoint_log)))
                ELSE log2
    IN  [ headers |-> [ XRequestID    |-> h.request_id,
                        XResponseTime |-> FloatStr(now - h.start_time) ],
          log |-> log3 ]

\* @app.after_request.  oks[1]: the read of get_current_time(); oks[2],
\* oks[3], oks[4]: the three logger.info calls, each guarded.
AfterRequest(g, log, now, oks) ==
    LET log1 == IF oks[2]
                THEN Append(log, LogRecord("INFO", << "Request completed" >>))
                ELSE log
        log2 == IF IsSet(g.monitoring_log) /\ oks[3]
                THEN Append(log1, LogRecord("INFO", Get(g.monitoring_log)))
                ELSE log1
        log3 == IF IsSet(g.endpoint_log) /\ oks[4]
                THEN Append(log2, LogRecord("INFO", Get(g.endpoint_log)))
                ELSE log2
    IN  [ headers |-> [ XRequestID    |-> g.request_id,
                        XResponseTime |-> IF oks[1]
                                          THEN FloatStr(now - g.start_time)
                                          ELSE IntStr(0) ],
          log |-> log3 ]

\* ---------------------------------------------------------------- inputs

\* Request slots; requests are served one at a time in slot 1.
Slots == { 1, 2 }

Sequential == { 1 }

Methods == { "GET", "POST" }

Paths == KnownPaths \cup { "/nope" }

\* Values of the msg query parameter: absent, empty, three spaces, one with
\* a non-ASCII and a reserved character
Msgs == { None, Some(<< >>), Some(<< " ", " ", " " >>), Some(<< "é", "&" >>) }

\* Values of the X-Request-ID request header: absent, or supplied
Hdrs == { None, Some(<< "custom-1" >>) }

\* The requests: query parameters are given to GET /echo only
Requests ==
    { in \in [ method : Methods, path : Paths, msg : Msgs, hdr : Hdrs ] :
        /\ in.path # "/echo" => in.msg = None
        /\ in.method # "GET" => in.msg = None }

\* The requests of the concurrent clients: each thread of the test sends
\* its own X-Request-ID; others send none
ConcurrentHdrs == { None, Some(<< "custom-1" >>), Some(<< "custom-2" >>) }

ConcurrentRequests ==
    { in \in [ method : { "GET" }, path : { "/hello", "/echo" },
               msg : { None, Some(<< "a" >>), Some(<< "b" >>) },
               hdr : ConcurrentHdrs ] :
        /\ in.path = "/hello" => in.msg = None /\ in.hdr = None
        /\ in.path = "/echo"
             => \/ in.msg = Some(<< "a" >>) /\ in.hdr = Some(<< "custom-1" >>)
                \/ in.msg = Some(<< "b" >>) /\ in.hdr = Some(<< "custom-2" >>) }

\* Outcomes of the uses of a time function within one callback
AllOk == << TRUE, TRUE, TRUE, TRUE >>

\* A time function that raises throughout the callback, or on its first use only
NoneOk == << FALSE, FALSE, FALSE, FALSE >>

FirstFails == << FALSE, TRUE, TRUE, TRUE >>

Faults == { AllOk, NoneOk, FirstFails }

PsutilStates == { "ok", "absent", "error" }

\* What health() finds around it: psutil, and a datetime.utcnow() that returns
HealthEnvs == [ psutil : PsutilStates, utcnow : { TRUE } ]

\* The same, with a datetime.utcnow() that may raise
HealthEnvsFault == [ psutil : PsutilStates, utcnow : BOOLEAN ]

\* What is kept of it with the answer of a GET /health: whether a fault
\* occurred while the payload was built, and psutil's state when health()
\* got as far as importing it
NoEnv == [ fault |-> FALSE, psutil |-> "unused" ]

Observed(in, oks, env) ==
    IF in.method # "GET" \/ in.path # "/health" THEN NoEnv
    ELSE IF ~oks[1] \/ ~env.utcnow THEN [ fault |-> TRUE, psutil |-> "unused" ]
    ELSE [ fault |-> env.psutil = "error", psutil |-> env.psutil ]

NoInput == [ method |-> "GET", path |-> "/", msg |-> None, hdr |-> None ]

NoG == [ start_time |-> 0, request_id |-> None,
         endpoint_log |-> None, monitoring_log |-> None ]

Idle == [ phase |-> "idle", in |-> NoInput, g |-> NoG, log |-> << >> ]

\* No logger method has been called
NoCall == [ kind |-> "none" ]

\* No invocation of lambda_handler is in progress in the slot
NoInvocation == [ phase |-> "idle" ]

\* An answer of health() with its full payload
Healthy(status, body) == status = 200 /\ "uptime_seconds" \in DOMAIN body

Init ==
    /\ clock = 0
    /\ app_start_time \in { None, Some(0) }
    /\ req = [ s \in Slots |-> Idle ]
    /\ nBegun = 0
    /\ issued = { }
    /\ nIssued = 0
    /\ last = -1
    /\ prevUptime = None
    /\ inv = [ s \in Slots |-> NoInvocation ]
    /\ emitted = NoCall

\* --------------------------------------------------------------- actions

\* The wall clock moves, forwards or backwards.
Tick ==
    /\ \E t \in 0..MaxClock : t # clock /\ clock' = t
    /\ UNCHANGED << app_start_time, req, nBegun, issued, nIssued, last,
                    prevUptime, inv, emitted >>

\* A request arrives and before_request runs.
Begin(s, in, oks) ==
    /\ req[s].phase = "idle"
    /\ nBegun < MaxRequests
    /\ LET b == BeforeRequest(in, clock, oks)
       IN  /\ req' = [ req EXCEPT ![s] =
                        [ phase |-> "begun", in |-> in, g |-> b.g, log |-> b.log ] ]
           /\ IF IsSet(in.hdr)
              THEN UNCHANGED << issued, nIssued >>
              ELSE /\ issued' = issued \cup { b.g.request_id }
                   /\ nIssued' = nIssued + 1
    /\ nBegun' = nBegun + 1
    /\ prevUptime' = IF in.method = "GET" /\ in.path = "/health"
                     THEN prevUptime ELSE None
    /\ UNCHANGED << clock, app_start_time, last, inv, emitted >>

\* Routing, the view and the error handlers run.
Dispatch(s, oks, env, propagate) ==
    /\ req[s].phase = "begun"
    /\ LET r == FullDispatch(req[s].in, req[s].g, req[s].log, clock, oks,
                             app_start_time, env, propagate)
           o == Observed(req[s].in, oks, env)
       IN  req' = [ req EXCEPT ![s] =
                     IF r.raised
                     THEN [ phase |-> "raised", in |-> @.in, g |-> r.g,
                            log |-> r.log, env |-> o, exc |-> r.exc ]
                     ELSE [ phase |-> "dispatched", in |-> @.in, g |-> r.g,
                            log |-> r.log, env |-> o,
                            status |-> r.status, body |-> r.body ] ]
    /\ UNCHANGED << clock, app_start_time, nBegun, issued, nIssued, last,
                    prevUptime, inv, emitted >>

\* after_request runs on the response and the response is complete.
Finalize(s, oks) ==
    /\ req[s].phase = "dispatched"
    /\ LET a == AfterRequest(req[s].g, req[s].log, clock, oks)
       IN  req' = [ req EXCEPT ![s] =
                     [ phase |-> "done", in |-> @.in, g |-> @.g, log |-> a.log,
                       env |-> @.env, status |-> @.status, body |-> @.body,
                       headers |-> a.headers ] ]
    /\ UNCHANGED << clock, app_start_time, nBegun, issued, nIssued, last,
                    prevUptime, inv, emitted >>

\* The response, or the exception, reaches the caller.
Return(s) ==
    /\ req[s].phase \in { "done", "raised" }
    /\ last' = IF req[s].phase = "done" THEN req[s].status ELSE 0
    /\ prevUptime' = IF req[s].phase = "done" /\ Healthy(req[s].status, req[s].body)
                     THEN Some(req[s].body.uptime_seconds)
                     ELSE prevUptime
    /\ req' = [ req EXCEPT ![s] = Idle ]
    /\ UNCHANGED << clock, app_start_time, nBegun, issued, nIssued, inv, emitted >>

\* ---------------------------------------------------- the Lambda adapter

\* Query strings are texts of one character per atom.

\* The index of the first c in t, 0 when there is none
IndexOf(t, c) ==
    IF \E i \in 1..Len(t) : t[i] = c
    THEN CHOOSE i \in 1..Len(t) : t[i] = c /\ \A j \in 1..(i - 1) : t[j] # c
    ELSE 0

\* t.split(c)
RECURSIVE Split(_, _)
Split(t, c) ==
    LET i == IndexOf(t, c)
    IN  IF i = 0 THEN << t >>
        ELSE << SubSeq(t, 1, i - 1) >> \o Split(SubSeq(t, i + 1, Len(t)), c)

\* '&'.join([f"{k}={v}" for k, v in query_params.items()]): keys and values
\* are written as they are, nothing is percent-encoded
RECURSIVE BuildQuery(_)
BuildQuery(params) ==
    IF params = << >> THEN << >>
    ELSE LET item == params[1][1] \o << "=" >> \o params[1][2]
         IN  IF Len(params) = 1 THEN item
             ELSE item \o << "&" >> \o BuildQuery(Tail(params))

HexChars == << "0", "1", "2", "3", "4", "5", "6", "7", "8", "9",
               "a", "b", "c", "d", "e", "f" >>

IsHex(c) == \E i \in 1..Len(HexChars) : HexChars[i] = c

HexVal(c) == (CHOOSE i \in 1..Len(HexChars) : HexChars[i] = c) - 1

\* The character of a code point, for the code points the model's values
\* can name
Chr(n) ==
    CASE n = 32 -> " "
      [] n = 35 -> "#"
      [] n = 37 -> "%"
      [] n = 38 -> "&"
      [] n = 43 -> "+"
      [] n = 61 -> "="
      [] n = 65 -> "A"
      [] OTHER  -> "?"

\* urllib.parse.unquote_plus: '+' is a space, %XX is the character of code
\* XX, a '%' not followed by two hex digits stays
RECURSIVE UnquotePlus(_)
UnquotePlus(t) ==
    IF t = << >> THEN << >>
    ELSE IF t[1] = "+" THEN << " " >> \o UnquotePlus(Tail(t))
    ELSE IF t[1] = "%" /\ Len(t) >= 3 /\ IsHex(t[2]) /\ IsHex(t[3])
    THEN << Chr(16 * HexVal(t[2]) + HexVal(t[3])) >>
             \o UnquotePlus(SubSeq(t, 4, Len(t)))
    ELSE << t[1] >> \o UnquotePlus(Tail(t))

\* The query of the URL '/echo?' + q as the test client splits it: what
\* follows a '#' is the fragment and is not sent
QueryOfUrl(q) ==
    LET i == IndexOf(q, "#")
    IN  IF i = 0 THEN q ELSE SubSeq(q, 1, i - 1)

\* One item of a query string: key and value around the first '=', decoded
ParseItem(item) ==
    LET i == IndexOf(item, "=")
    IN  IF i = 0 THEN << UnquotePlus(item), << >> >>
        ELSE << UnquotePlus(SubSeq(item, 1, i - 1)),
                UnquotePlus(SubSeq(item, i + 1, Len(item))) >>

\* request.args of a query string: the items between '&', empty items skipped
ParseQuery(q) ==
    LET items == Split(q, "&")
        kept  == SelectSeq(items, LAMBDA item : item # << >>)
    IN  [ i \in 1..Len(kept) |-> ParseItem(kept[i]) ]

\* args.get(key): the first value of the key, when there is one
ArgsGet(args, key) ==
    IF \E i \in 1..Len(args) : args[i][1] = key
    THEN Some(args[CHOOSE i \in 1..Len(args) :
                       /\ args[i][1] = key
                       /\ \A j \in 1..(i - 1) : args[j][1] # key][2])
    ELSE None

MsgKey == << "m", "s", "g" >>

ExtraKey == << "x" >>

\* context.aws_request_id of the contexts of the model
CtxId == << "ctx-1" >>

\* f"lambda-{int(time.time() * 1000)}"
LambdaId(now) == << "lambda-" >> \o IntStr(now \div TicksPerMs)

\* The invocation context: none, an object with aws_request_id only, an
\* object with get_remaining_time_in_millis() and memory_limit_in_mb too
Contexts == { "none", "id_only", "full" }

\* json.dumps and response.get_data(as_text=True): the text of a JSON
\* document, kept as the document it decodes to
Dumps(obj) == [ json |-> obj ]

Loads(text) == text.json

\* event.get('httpMethod', event.get('requestContext', {}).get('http',
\* {}).get('method', 'GET')) and the two lines after it.  The default of a
\* .get is evaluated before the call, so the nested fields are read also
\* when the flat one is present; .get on a value that is no mapping raises.
ParseEvent(event) ==
    IF \/ ~event.mapping
       \/ event.rc = "not_mapping"
       \/ event.rc = "map" /\ event.http = "not_mapping"
    THEN [ ok |-> FALSE ]
    ELSE [ ok           |-> TRUE,
           http_method  |-> IF IsSet(event.httpMethod) THEN Get(event.httpMethod)
                            ELSE IF event.rc = "map" /\ event.http = "map"
                                    /\ IsSet(event.nested_method)
                            THEN Get(event.nested_method)
                            ELSE "GET",
           path         |-> IF IsSet(event.path) THEN Get(event.path)
                            ELSE IF IsSet(event.rawPath) THEN Get(event.rawPath)
                            ELSE "/",
           query_params |-> IF event.qsp = "map" THEN event.params ELSE << >> ]

\* The extra fields of "Lambda handler invoked" can be built: sourceIp and
\* userAgent are read through requestContext.identity, the remaining time is
\* asked of the context when there is one
InvokedFieldsOk(event, context) ==
    /\ ~(event.rc = "map" /\ event.identity = "not_mapping")
    /\ context # "id_only"

\* Mutant of InnerRequest: the method of the event is the method of the call
InnerRequestKeepsMethod(http_method, path, query_params, request_id) ==
    [ method |-> http_method,
      path   |-> path,
      msg    |-> IF path = "/echo"
                 THEN ArgsGet(ParseQuery(QueryOfUrl(BuildQuery(query_params))), MsgKey)
                 ELSE None,
      hdr    |-> Some(request_id) ]

\* The call made on the test client: always a GET; the query string is sent
\* in the /echo branch only
InnerRequest(http_method, path, query_params, request_id) ==
    [ method |-> "GET",
      path   |-> path,
      msg    |-> IF path = "/echo" /\ http_method = "GET"
                 THEN ArgsGet(ParseQuery(QueryOfUrl(BuildQuery(query_params))), MsgKey)
                 ELSE None,
      hdr    |-> Some(request_id) ]

\* The application serves one request of the test client; an exception that
\* leaves it is raised by the client call.  The application is not in
\* testing mode, and the time functions work.
ClientGet(in, now, start, env) ==
    LET b == BeforeRequest(in, now, AllOk)
        r == FullDispatch(in, b.g, b.log, now, AllOk, start, env, FALSE)
    IN  IF r.raised THEN [ raised |-> TRUE ]
        ELSE [ raised  |-> FALSE,
               status  |-> r.status,
               body    |-> r.body,
               headers |-> AfterRequest(r.g, r.log, now, AllOk).headers ]

\* The envelope of a routed response
RoutedEnvelope(response, request_id, duration) ==
    [ statusCode |-> response.status,
      headers    |-> [ ContentType  |-> << "application/json" >>,
                       AllowOrigin  |-> << "*" >>,
                       AllowMethods |-> << "GET, POST, OPTIONS" >>,
                       AllowHeaders |-> << "Content-Type" >>,
                       XRequestID   |-> request_id,
                       XResponseTime |-> duration ],
      body       |-> Dumps(response.body) ]

\* Mutant of FaultEnvelope: the body of a fault names no request
FaultEnvelopeUnknownId(request_id, duration, now) ==
    [ statusCode |-> 500,
      headers    |-> [ ContentType  |-> << "application/json" >>,
                       AllowOrigin  |-> << "*" >>,
                       XRequestID   |-> request_id,
                       XResponseTime |-> duration ],
      body       |-> Dumps([ error       |-> InternalError,
                             status_code |-> 500,
                             request_id  |-> Unknown,
                             timestamp   |-> Timestamp(now) ]) ]

\* The envelope of the except branch
FaultEnvelope(request_id, duration, now) ==
    [ statusCode |-> 500,
      headers    |-> [ ContentType  |-> << "application/json" >>,
                       AllowOrigin  |-> << "*" >>,
                       XRequestID   |-> request_id,
                       XResponseTime |-> duration ],
      body       |-> Dumps([ error       |-> InternalError,
                             status_code |-> 500,
                             request_id  |-> request_id,
                             timestamp   |-> Timestamp(now) ]) ]

\* The except branch: the extra fields of "Error in lambda_handler" read
\* event.get('path') and event.get('httpMethod') with no guard, then the
\* envelope is returned
Except(event, request_id, now, log, inner) ==
    IF ~event.mapping
    THEN [ escaped |-> TRUE, log |-> log, inner |-> inner ]
    ELSE [ escaped  |-> FALSE,
           fault    |-> TRUE,
           envelope |-> FaultEnvelope(request_id, FloatStr(0), now),
           log      |-> Append(log, LogRecord("ERROR", << "Error in lambda_handler" >>)),
           inner    |-> inner ]

\* lambda_handler(event, context), the clock reading `now` throughout
LambdaHandler(event, context, now, start, env) ==
    LET request_id == IF context # "none" THEN CtxId ELSE LambdaId(now)
        parsed     == ParseEvent(event)
    IN  IF ~parsed.ok THEN Except(event, request_id, now, << >>, None)
        ELSE IF ~InvokedFieldsOk(event, context)
        THEN Except(event, request_id, now, << >>, None)
        ELSE LET log1 == << LogRecord("INFO", << "Lambda handler invoked" >>) >>
                 in   == InnerRequest(parsed.http_method, parsed.path,
                                      parsed.query_params, request_id)
                 response == ClientGet(in, now, start, env)
             IN  IF response.raised
                 THEN Except(event, request_id, now, log1, Some(in))
                 ELSE [ escaped  |-> FALSE,
                        fault    |-> FALSE,
                        envelope |-> RoutedEnvelope(response, request_id, FloatStr(0)),
                        log      |-> Append(log1, LogRecord("INFO",
                                        << "Lambda handler completed successfully" >>)),
                        inner    |-> Some(in) ]

\* ---------------------------------------------------- invocation inputs

OptMethods == { None, Some("GET"), Some("POST") }

OptPaths == { None } \cup { Some(p) : p \in Paths }

Kinds == { "absent", "not_mapping", "map" }

\* Values of msg in queryStringParameters: empty, plain, with a space, with
\* each of the characters a query string reserves, percent-encoded looking,
\* non-ASCII
LambdaMsgs ==
    { << >>, << "a" >>, << "a", " ", "b" >>, << "a", "&", "b" >>,
      << "a", "=", "b" >>, << "a", "+", "b" >>, << "%", "4", "1" >>,
      << "a", "#", "b" >>, << "é" >> }

\* queryStringParameters mappings: empty, msg alone, msg before or after
\* another entry
EchoParams ==
    { << >> }
        \cup { << << MsgKey, v >> >> : v \in LambdaMsgs }
        \cup { << << MsgKey, v >>, << ExtraKey, << "y" >> >> >> : v \in LambdaMsgs }
        \cup { << << ExtraKey, << "y" >> >>, << MsgKey, v >> >> :
                   v \in { << "a" >>, << "a", "&", "b" >> } }

\* An event that is a mapping.  qsp: queryStringParameters is absent, null or
\* a mapping (params, in insertion order); rc: requestContext is absent, a
\* value that is no mapping, or a mapping, and then http and identity
\* likewise, with http.method when http is a mapping.
Ev(m, p, rp, qsp, params, rc, http, nm, identity) ==
    [ mapping |-> TRUE, httpMethod |-> m, path |-> p, rawPath |-> rp,
      qsp |-> qsp, params |-> params, rc |-> rc, http |-> http,
      nested_method |-> nm, identity |-> identity ]

\* An event that is no mapping (None, a list, a string)
NotAMapping ==
    [ mapping |-> FALSE, httpMethod |-> None, path |-> None, rawPath |-> None,
      qsp |-> "absent", params |-> << >>, rc |-> "absent", http |-> "absent",
      nested_method |-> None, identity |-> "absent" ]

\* Events of the flat shape, without and with query parameters
FlatEvents ==
    { Ev(m, p, None, "absent", << >>, "absent", "absent", None, "absent") :
        m \in OptMethods, p \in OptPaths }
    \cup { Ev(m, Some("/echo"), None, "map", params, "absent", "absent", None, "absent") :
        m \in OptMethods, params \in EchoParams }
    \cup { Ev(m, Some("/echo"), None, "null", << >>, "absent", "absent", None, "absent") :
        m \in OptMethods }

\* Events of the nested shape
NestedEvents ==
    { Ev(None, None, rp, "absent", << >>, "map", "map", nm, "absent") :
        rp \in OptPaths, nm \in OptMethods }
    \cup { Ev(None, None, Some("/echo"), "map", << << MsgKey, << "a" >> >> >>,
              "map", "map", nm, "absent") : nm \in OptMethods }

\* Events with the flat fields and a requestContext of any shape
MixedEvents ==
    { Ev(Some(m), Some("/hello"), rp, "absent", << >>, "map", http, nm, identity) :
        m \in Methods, rp \in { None, Some("/health") }, http \in Kinds,
        nm \in { None, Some("POST") }, identity \in { "absent", "not_mapping" } }
    \cup { Ev(Some(m), Some("/hello"), None, "absent", << >>, "not_mapping",
               "absent", None, "absent") : m \in Methods }

Events == { NotAMapping } \cup FlatEvents \cup NestedEvents \cup MixedEvents

\* ----------------------------------------------------- invocation steps

\* lambda_handler runs from its first to its last line.  env is kept with
\* the outcome when health() ran.
Invoke(s, event, context, env) ==
    /\ inv[s].phase = "idle"
    /\ req[s].phase = "idle"
    /\ nBegun < MaxRequests
    /\ LET r == LambdaHandler(event, context, clock, app_start_time, env)
           health == IsSet(r.inner) /\ Get(r.inner).path = "/health"
       IN  /\ inv' = [ inv EXCEPT ![s] =
                        [ phase |-> "returned", event |-> event,
                          context |-> context, at |-> clock,
                          env |-> IF health THEN env
                                  ELSE [ psutil |-> "ok", utcnow |-> TRUE ],
                          out |-> r ] ]
           /\ prevUptime' = IF health THEN prevUptime ELSE None
    /\ nBegun' = nBegun + 1
    /\ UNCHANGED << clock, app_start_time, req, issued, nIssued, last, emitted >>

\* The envelope, or the exception, reaches the Lambda runtime.
InvokeReturn(s) ==
    /\ inv[s].phase = "returned"
    /\ last' = IF inv[s].out.escaped THEN 0 ELSE inv[s].out.envelope.statusCode
    /\ prevUptime' = IF /\ ~inv[s].out.escaped
                        /\ Healthy(inv[s].out.envelope.statusCode,
                                   Loads(inv[s].out.envelope.body))
                     THEN Some(Loads(inv[s].out.envelope.body).uptime_seconds)
                     ELSE prevUptime
    /\ inv' = [ inv EXCEPT ![s] = NoInvocation ]
    /\ UNCHANGED << clock, app_start_time, req, nBegun, issued, nIssued, emitted >>

\* ------------------------------------------------- structured formatters

\* log_entry.update(record.extra_fields): a key of the extra fields takes the
\* place of the same key of the entry
Update(entry, extra) ==
    [ k \in (DOMAIN entry) \cup (DOMAIN extra) |->
        IF k \in DOMAIN extra THEN extra[k] ELSE entry[k] ]

\* The record has no extra_fields
NoExtra == [ k \in { } |-> << >> ]

\* The entry StructuredFormatter.format builds before the extra fields are
\* merged in, within a request; module, function and line are left out.
\* call.utcOk: datetime.utcnow() returns; call.clockOk: get_current_time()
\* returns.
AppEntry(call, now) ==
    [ timestamp   |-> IF call.utcOk THEN Timestamp(now) ELSE Unknown,
      level       |-> call.level,
      logger      |-> << "src.app" >>,
      message     |-> call.message,
      request_id  |-> call.ctx.request_id,
      duration_ms |-> IF call.clockOk
                      THEN FloatStr(now - call.ctx.start_time)
                      ELSE IntStr(0) ]

\* StructuredFormatter.format under Handler.emit.  hasattr(g, "request_id")
\* outside an application context raises RuntimeError, which hasattr does not
\* catch; Handler.emit catches what format raises and writes no record.
StructuredFormat(call, now) ==
    IF ~call.ctx.bound
    THEN [ kind |-> "dropped", call |-> call, at |-> now ]
    ELSE [ kind   |-> "record", call |-> call, at |-> now,
           record |-> Update(AppEntry(call, now), call.extra) ]

\* The entry LambdaStructuredFormatter.format builds before the extra fields
\* are merged in; no record of the adapter has an aws_request_id attribute
LambdaEntry(call, now) ==
    [ timestamp        |-> Timestamp(now),
      level            |-> call.level,
      logger           |-> << "root" >>,
      message          |-> call.message,
      aws_request_id   |-> Unknown,
      function_name    |-> Unknown,
      function_version |-> Unknown,
      memory_limit     |-> Unknown ]

\* LambdaStructuredFormatter.format under Handler.emit: datetime.utcnow() is
\* not guarded
LambdaFormat(call, now) ==
    IF ~call.utcOk
    THEN [ kind |-> "dropped", call |-> call, at |-> now ]
    ELSE [ kind   |-> "record", call |-> call, at |-> now,
           record |-> Update(LambdaEntry(call, now), call.extra) ]

\* logger.info, logger.warning or logger.error.  call.timeOk: time.time()
\* returns; the LogRecord reads it when it is created, before any formatter
\* runs, and what it raises reaches the caller of the logger method.
LoggerCall(call, now) ==
    IF ~call.timeOk THEN [ kind |-> "raised", call |-> call, at |-> now ]
    ELSE IF call.formatter = "app" THEN StructuredFormat(call, now)
    ELSE LambdaFormat(call, now)

Levels == { "INFO", "WARNING", "ERROR" }

\* Within a request g has request_id and start_time; outside an application
\* context g is unbound
Unbound == [ bound |-> FALSE, request_id |-> << >>, start_time |-> 0 ]

LogContexts ==
    { Unbound } \cup [ bound : { TRUE }, request_id : { << "custom-1" >> },
                       start_time : 0..MaxClock ]

\* Extra fields of the callers: none, those of the error logs and of the
\* startup log, those of the adapter, and fields named as fixed fields are
Extras ==
    { NoExtra,
      [ endpoint |-> << "/hello" >>, error |-> << "boom" >> ],
      [ environment |-> << "development" >>, port |-> << "5000" >> ],
      [ aws_request_id |-> CtxId, duration_ms |-> << "7", ".", "5" >> ],
      [ request_id |-> << "other" >> ],
      [ timestamp |-> << "never" >>, level |-> "DEBUG", message |-> << "other" >> ] }

\* The time functions at a call: all work; get_current_time alone raises;
\* time.time raises, and get_current_time with it; datetime.utcnow raises
TimeStates ==
    { [ timeOk |-> TRUE,  clockOk |-> TRUE,  utcOk |-> TRUE ],
      [ timeOk |-> TRUE,  clockOk |-> FALSE, utcOk |-> TRUE ],
      [ timeOk |-> FALSE, clockOk |-> FALSE, utcOk |-> TRUE ],
      [ timeOk |-> TRUE,  clockOk |-> TRUE,  utcOk |-> FALSE ] }

LogMessages == { << "Incoming request" >>, << "Starting Flask application" >> }

\* The calls of logger methods: the adapter's logger has no request context
Calls ==
    { [ formatter |-> f, level |-> l, message |-> m, extra |-> x, ctx |-> c,
        timeOk |-> t.timeOk, clockOk |-> t.clockOk, utcOk |-> t.utcOk ] :
        f \in { "app", "lambda" }, l \in Levels, m \in LogMessages,
        x \in Extras, c \in LogContexts, t \in TimeStates }
    \ { call \in
          [ formatter : { "lambda" }, level : Levels, message : LogMessages,
            extra : Extras, ctx : LogContexts \ { Unbound },
            timeOk : BOOLEAN, clockOk : BOOLEAN, utcOk : BOOLEAN ] : TRUE }

\* A logger method is called.
Emit(call) ==
    /\ emitted' = LoggerCall(call, clock)
    /\ UNCHANGED << clock, app_start_time, req, nBegun, issued, nIssued, last,
                    prevUptime, inv >>

\* -------------------------------------------------------- specifications

\* Time functions work.
Next ==
    \/ Tick
    \/ \E s \in Sequential, in \in Requests : Begin(s, in, AllOk)
    \/ \E s \in Sequential, env \in HealthEnvs, propagate \in BOOLEAN :
           Dispatch(s, AllOk, env, propagate)
    \/ \E s \in Sequential : Finalize(s, AllOk)
    \/ \E s \in Sequential : Return(s)

Spec == Init /\ [][Next]_vars

\* Time functions may raise.
NextFault ==
    \/ Tick
    \/ \E s \in Sequential, in \in Requests, oks \in Faults : Begin(s, in, oks)
    \/ \E s \in Sequential, oks \in Faults, env \in HealthEnvs,
          propagate \in BOOLEAN :
           Dispatch(s, oks, env, propagate)
    \/ \E s \in Sequential, oks \in Faults : Finalize(s, oks)
    \/ \E s \in Sequential : Return(s)

SpecFault == Init /\ [][NextFault]_vars

\* The health endpoint with every fault its handler provides for: requests to
\* /health, and to an unknown path for the history, with failing time
\* functions and a datetime.utcnow() that may raise.
HealthRequests == { in \in Requests : in.path \in { "/health", "/nope" } }

NextHealth ==
    \/ Tick
    \/ \E s \in Sequential, in \in HealthRequests, oks \in Faults : Begin(s, in, oks)
    \/ \E s \in Sequential, oks \in Faults, env \in HealthEnvsFault,
          propagate \in BOOLEAN :
           Dispatch(s, oks, env, propagate)
    \/ \E s \in Sequential, oks \in Faults : Finalize(s, oks)
    \/ \E s \in Sequential : Return(s)

SpecHealth == Init /\ [][NextHealth]_vars

\* The process of the Lambda runtime: the application is imported, never run
\* as a script, and serves invocations only.
InitLambda == Init /\ app_start_time = None

NextLambda ==
    \/ Tick
    \/ \E s \in Sequential, event \in Events, context \in Contexts,
          env \in HealthEnvs :
           Invoke(s, event, context, env)
    \/ \E s \in Sequential : InvokeReturn(s)

SpecLambda == InitLambda /\ [][NextLambda]_vars

\* Requests handled concurrently: the threaded server gives each request its
\* own thread, and the callbacks of the requests in flight interleave.
NextConcurrent ==
    \/ Tick
    \/ \E s \in Slots, in \in ConcurrentRequests : Begin(s, in, AllOk)
    \/ \E s \in Slots :
           Dispatch(s, AllOk, [ psutil |-> "ok", utcnow |-> TRUE ], FALSE)
    \/ \E s \in Slots : Finalize(s, AllOk)
    \/ \E s \in Slots : Return(s)

SpecConcurrent == Init /\ [][NextConcurrent]_vars

\* The loggers on their own: calls of logger methods, within and outside a
\* request, with time functions that may raise.
NextLog ==
    \/ Tick
    \/ \E call \in Calls : Emit(call)

SpecLog == Init /\ [][NextLog]_vars

\* ---------------------------------------------------------------- claims

\* The request in slot s has been routed and handled: it has a response, or
\* an exception left the application.
Settled(s) == req[s].phase \in { "dispatched", "done", "raised" }

HasResponse(s) == req[s].phase \in { "dispatched", "done" }

Has(body, field) == field \in DOMAIN body

\* C1: a GET /echo whose msg is a non-empty string m is answered with status
\* 200, body.message equal to m as it is, and body.echo true.
C1_EchoReturnsMessage ==
    \A s \in Slots :
        ( /\ Settled(s)
          /\ req[s].in.method = "GET"
          /\ req[s].in.path = "/echo"
          /\ IsSet(req[s].in.msg)
          /\ Len(Get(req[s].in.msg)) > 0 )
        => /\ HasResponse(s)
           /\ req[s].status = 200
           /\ Has(req[s].body, "message")
           /\ req[s].body.message = Get(req[s].in.msg)
           /\ Has(req[s].body, "echo")
           /\ req[s].body.echo = TRUE

\* A completed GET /echo of three spaces, answered 200 with the three spaces.
C1_Witness ==
    \E s \in Slots :
        /\ req[s].phase = "done"
        /\ req[s].in.method = "GET"
        /\ req[s].in.path = "/echo"
        /\ req[s].in.msg = Some(<< " ", " ", " " >>)
        /\ req[s].status = 200
        /\ req[s].body.message = << " ", " ", " " >>

\* C2: a GET /echo whose msg is absent or empty is answered with status 400,
\* body.error "Parameter 'msg' is required" and body.status_code 400, and
\* so never with 200.
C2_EchoRequiresMsg ==
    \A s \in Slots :
        ( /\ Settled(s)
          /\ req[s].in.method = "GET"
          /\ req[s].in.path = "/echo"
          /\ (~IsSet(req[s].in.msg) \/ Get(req[s].in.msg) = << >>) )
        => /\ HasResponse(s)
           /\ req[s].status = 400
           /\ Has(req[s].body, "error")
           /\ req[s].body.error = MsgRequired
           /\ Has(req[s].body, "status_code")
           /\ req[s].body.status_code = 400

\* A completed GET /echo with msg present and empty, answered 400.
C2_Witness ==
    \E s \in Slots :
        /\ req[s].phase = "done"
        /\ req[s].in.method = "GET"
        /\ req[s].in.path = "/echo"
        /\ req[s].in.msg = Some(<< >>)
        /\ req[s].status = 400

\* C3: whatever requests came before, a GET /hello is answered with status
\* 200, message "Hello World" and version "1.0.0".
C3_HelloUnaffectedByHistory ==
    \A s \in Slots :
        ( /\ Settled(s)
          /\ req[s].in.method = "GET"
          /\ req[s].in.path = "/hello" )
        => /\ HasResponse(s)
           /\ req[s].status = 200
           /\ Has(req[s].body, "message")
           /\ req[s].body.message = HelloWorld
           /\ Has(req[s].body, "version")
           /\ req[s].body.version = Version

\* A completed GET /hello answered 200 right after a request that ended in
\* 400 or 404.
C3_Witness ==
    \E s \in Slots :
        /\ req[s].phase = "done"
        /\ req[s].in.method = "GET"
        /\ req[s].in.path = "/hello"
        /\ req[s].status = 200
        /\ last \in { 400, 404 }

\* C4: a GET of a path outside the route table is answered with status 404
\* and a body with error "Endpoint not found", status_code 404, a timestamp
\* and the request id of the request.
C4_UnknownPathIs404 ==
    \A s \in Slots :
        ( /\ Settled(s)
          /\ req[s].in.method = "GET"
          /\ req[s].in.path \notin KnownPaths )
        => /\ HasResponse(s)
           /\ req[s].status = 404
           /\ Has(req[s].body, "error")
           /\ req[s].body.error = NotFoundError
           /\ Has(req[s].body, "status_code")
           /\ req[s].body.status_code = 404
           /\ Has(req[s].body, "timestamp")
           /\ Has(req[s].body, "request_id")
           /\ req[s].body.request_id = req[s].g.request_id

\* A completed GET /nope answered 404.
C4_Witness ==
    \E s \in Slots :
        /\ req[s].phase = "done"
        /\ req[s].in.method = "GET"
        /\ req[s].in.path = "/nope"
        /\ req[s].status = 404

\* C5: a request with a method other than GET to /hello or /echo is answered
\* with status 405: no exception leaves the application and the status is
\* not 500.
C5_OtherMethodIs405 ==
    \A s \in Slots :
        ( /\ Settled(s)
          /\ req[s].in.method # "GET"
          /\ req[s].in.path \in { "/hello", "/echo" } )
        => /\ HasResponse(s)
           /\ req[s].status = 405

\* C6: on every completed response the X-Request-ID header equals the body
\* field request_id, and both equal the request id set for the request by
\* before_request.
C6_HeaderEqualsBodyRequestId ==
    \A s \in Slots :
        req[s].phase = "done"
        => /\ Has(req[s].body, "request_id")
           /\ req[s].headers.XRequestID = req[s].body.request_id
           /\ req[s].body.request_id = req[s].g.request_id

\* C7: when the request carries X-Request-ID with value v, a response with
\* status 200, 400 or 404 has v as its X-Request-ID header and as its body
\* field request_id.
C7_SuppliedRequestIdIsEchoed ==
    \A s \in Slots :
        ( /\ req[s].phase = "done"
          /\ IsSet(req[s].in.hdr)
          /\ req[s].status \in { 200, 400, 404 } )
        => /\ req[s].headers.XRequestID = Get(req[s].in.hdr)
           /\ Has(req[s].body, "request_id")
           /\ req[s].body.request_id = Get(req[s].in.hdr)

\* A completed 404 response to a request that supplied X-Request-ID.
C7_Witness ==
    \E s \in Slots :
        /\ req[s].phase = "done"
        /\ req[s].in.hdr = Some(<< "custom-1" >>)
        /\ req[s].status = 404
        /\ req[s].headers.XRequestID = << "custom-1" >>

\* C8: the request ids generated for the requests that supplied none are
\* pairwise distinct: N such requests have N different ids.
C8_GeneratedIdsDistinct == Cardinality(issued) = nIssued

\* A non-negative numeric string: digits, with at most one "." between digits
NonNegNumeric(t) ==
    /\ Len(t) > 0
    /\ IsDigit(t[1])
    /\ IsDigit(t[Len(t)])
    /\ \A i \in 1..Len(t) : IsDigit(t[i]) \/ t[i] = "."
    /\ Cardinality({ i \in 1..Len(t) : t[i] = "." }) <= 1

\* C9: the X-Response-Time header of every completed response is a numeric
\* string that is not negative.
C9_ResponseTimeNonNegative ==
    \A s \in Slots :
        req[s].phase = "done" => NonNegNumeric(req[s].headers.XResponseTime)

\* An ISO-8601 UTC timestamp as isoformat() + "Z" writes it
IsIsoUtcZ(t) ==
    /\ Len(t) >= 3
    /\ t[1] = IsoDate
    /\ t[Len(t)] = "Z"
    /\ \A i \in 2..(Len(t) - 1) : IsDigit(t[i])

\* C10: the body of every response has a timestamp field in ISO-8601 UTC
\* form ending in "Z", never a placeholder.
C10_TimestampIsIsoUtc ==
    \A s \in Slots :
        HasResponse(s)
        => /\ Has(req[s].body, "timestamp")
           /\ IsIsoUtcZ(req[s].body.timestamp)

\* The request in slot s is a GET /health
IsHealthCall(s) == req[s].in.method = "GET" /\ req[s].in.path = "/health"

\* C11: under normal operation (time functions work, psutil does not raise) a
\* GET /health is answered 200 with status "healthy", version "1.0.0" and the
\* three checks "ok", whatever requests the process answered before.
C11_HealthyUnderNormalOperation ==
    \A s \in Slots :
        (Settled(s) /\ IsHealthCall(s) /\ ~req[s].env.fault)
            => /\ HasResponse(s)
               /\ req[s].status = 200
               /\ req[s].body.status = << "healthy" >>
               /\ req[s].body.version = Version
               /\ req[s].body.checks = [ application  |-> << "ok" >>,
                                         memory       |-> << "ok" >>,
                                         dependencies |-> << "ok" >> ]

\* A healthy answer is complete after the process returned a 404 or a 400
C11_Witness ==
    \E s \in Slots :
        /\ req[s].phase = "done" /\ IsHealthCall(s)
        /\ req[s].status = 200
        /\ last \in { 400, 404 }

\* lambda_handler has run in slot s
Returned(s) == inv[s].phase = "returned"

\* lambda_handler has returned an envelope in slot s
Enveloped(s) == Returned(s) /\ ~inv[s].out.escaped

StatusCode(s) == inv[s].out.envelope.statusCode

\* The body of the envelope, decoded
Decoded(s) == Loads(inv[s].out.envelope.body)

\* The process starts with the clock at 0 (Init), so the time elapsed since
\* its start when the clock reads `now` is `now`; the timestamp of a healthy
\* answer is written from the same reading as its uptime_seconds.
ElapsedSinceStart(body) == body.timestamp = Timestamp(body.uptime_seconds)

\* C12: uptime_seconds of a healthy answer is the time elapsed since the start
\* of the process, and of two successive healthy answers the second reports
\* an uptime_seconds at least as large as the first.
C12_UptimeIsElapsedTime ==
    \A s \in Slots :
        /\ (req[s].phase = "done" /\ IsHealthCall(s)
                /\ Healthy(req[s].status, req[s].body))
            => /\ ElapsedSinceStart(req[s].body)
               /\ IsSet(prevUptime) => req[s].body.uptime_seconds >= Get(prevUptime)
        /\ (Enveloped(s) /\ Healthy(StatusCode(s), Decoded(s)))
            => /\ ElapsedSinceStart(Decoded(s))
               /\ IsSet(prevUptime) => Decoded(s).uptime_seconds >= Get(prevUptime)

\* C13: a fault while the health payload is built (a failing clock read, a
\* failing timestamp, an exception of psutil other than its absence) is
\* answered 503 with status "unhealthy", error "Health check failed", a
\* timestamp and the request id; no exception leaves the application and the
\* answer is never a 500.
C13_HealthFaultIs503 ==
    \A s \in Slots :
        (Settled(s) /\ IsHealthCall(s) /\ req[s].env.fault)
            => /\ HasResponse(s)
               /\ req[s].status = 503
               /\ DOMAIN req[s].body = { "status", "error", "timestamp", "request_id" }
               /\ req[s].body.status = << "unhealthy" >>
               /\ req[s].body.error = HealthFailed
               /\ req[s].body.request_id = req[s].g.request_id

\* psutil raised while the metrics were collected and the answer is complete
C13_Witness ==
    \E s \in Slots :
        /\ req[s].phase = "done" /\ IsHealthCall(s)
        /\ req[s].env = [ fault |-> TRUE, psutil |-> "error" ]
        /\ req[s].status = 503

\* The event of slot s has the flat fields httpMethod m and path p and no
\* requestContext
FlatCall(s, m, p) ==
    /\ Returned(s)
    /\ inv[s].event.mapping
    /\ inv[s].event.httpMethod = Some(m)
    /\ inv[s].event.path = Some(p)
    /\ inv[s].event.rc = "absent"

\* The value of msg in the queryStringParameters of the event of slot s
MsgParam(s) ==
    IF inv[s].event.qsp = "map" THEN ArgsGet(inv[s].event.params, MsgKey) ELSE None

\* The context of slot s offers what the Lambda runtime's context offers, or
\* there is none
UsualContext(s) == inv[s].context \in { "none", "full" }

\* C14: an invocation with GET /echo and queryStringParameters holding msg=v,
\* v non-empty and of any characters, alone or with other entries, returns
\* statusCode 200 and a body whose message is v exactly and whose echo is true.
C14_AdapterEchoReturnsMessage ==
    \A s \in Slots :
        ( /\ FlatCall(s, "GET", "/echo") /\ UsualContext(s)
          /\ IsSet(MsgParam(s)) /\ Len(Get(MsgParam(s))) > 0 )
        => /\ Enveloped(s)
           /\ StatusCode(s) = 200
           /\ Has(Decoded(s), "message")
           /\ Decoded(s).message = Get(MsgParam(s))
           /\ Decoded(s).echo = TRUE

\* C15: whatever the event (well formed, with fields missing or of the wrong
\* shape, or no mapping at all) and the context, lambda_handler returns an
\* envelope and no exception leaves it; a fault gives a statusCode 500.
C15_AdapterNeverRaises ==
    \A s \in Slots :
        Returned(s) => /\ Enveloped(s)
                       /\ inv[s].out.fault => StatusCode(s) = 500

\* C16: the body of the envelope of a fault has error "Internal server
\* error", status_code 500 and as request_id the identifier of the context,
\* or "unknown" when there is no context.
C16_FaultBodyRequestId ==
    \A s \in Slots :
        (Enveloped(s) /\ inv[s].out.fault)
            => /\ Decoded(s).error = InternalError
               /\ Decoded(s).status_code = 500
               /\ Decoded(s).request_id =
                      IF inv[s].context = "none" THEN Unknown ELSE CtxId

\* C17: with a context that has aws_request_id and nothing else, GET /hello
\* and GET /echo with a msg are answered 200 with the body of the view, not
\* with the envelope of a fault.
C17_IdOnlyContextIsHandled ==
    \A s \in Slots :
        ( /\ inv[s].phase = "returned" /\ inv[s].context = "id_only"
          /\ \/ FlatCall(s, "GET", "/hello")
             \/ FlatCall(s, "GET", "/echo") /\ MsgParam(s) = Some(<< "a" >>) )
        => /\ Enveloped(s)
           /\ ~inv[s].out.fault
           /\ StatusCode(s) = 200
           /\ \/ Has(Decoded(s), "message") /\ Decoded(s).message = HelloWorld
              \/ Has(Decoded(s), "echo") /\ Decoded(s).message = << "a" >>

\* The two bodies have the same fields and agree on all but the timestamp
SameButTimestamp(a, b) ==
    /\ DOMAIN a = DOMAIN b
    /\ \A f \in (DOMAIN a) \ { "timestamp" } : a[f] = b[f]

\* The answer of the HTTP entry point to the request the event of slot s
\* describes, with the identifier of the context as X-Request-ID, at the clock
\* reading and in the surroundings of the invocation
HttpAnswer(s) ==
    ClientGet([ method |-> Get(inv[s].event.httpMethod),
                path   |-> Get(inv[s].event.path),
                msg    |-> MsgParam(s),
                hdr    |-> Some(CtxId) ],
              inv[s].at, app_start_time, inv[s].env)

\* C18: for every method, path and query parameters the statusCode and the
\* decoded body of the adapter, timestamp apart, are those of the HTTP entry
\* point for the same request and X-Request-ID, a method other than GET on a
\* known path included.
C18_AdapterRefinesHttp ==
    \A s \in Slots :
        ( /\ \E m \in Methods, p \in Paths : FlatCall(s, m, p)
          /\ inv[s].context = "full" )
        => /\ Enveloped(s)
           /\ ~HttpAnswer(s).raised
           /\ StatusCode(s) = HttpAnswer(s).status
           /\ SameButTimestamp(Decoded(s), HttpAnswer(s).body)

\* C19: an invocation with httpMethod POST and path /hello returns statusCode
\* 200 and the message "Hello World": the method is no ground for refusal.
C19_AdapterIgnoresMethod ==
    \A s \in Slots :
        (FlatCall(s, "POST", "/hello") /\ UsualContext(s))
            => /\ Enveloped(s)
               /\ StatusCode(s) = 200
               /\ Decoded(s).message = HelloWorld

\* POST /hello was invoked with a full context and answered 200
C19_Witness ==
    \E s \in Slots :
        /\ FlatCall(s, "POST", "/hello")
        /\ inv[s].context = "full"
        /\ Enveloped(s)
        /\ StatusCode(s) = 200

\* The event without its requestContext
StripNested(event) ==
    [ event EXCEPT !.rc = "absent", !.http = "absent",
                   !.nested_method = None, !.identity = "absent" ]

\* The outcome of slot s had the event been e
OutcomeFor(s, e) ==
    LambdaHandler(e, inv[s].context, inv[s].at, app_start_time, inv[s].env)

\* C20: the method is httpMethod, else requestContext.http.method, else GET;
\* the path is path, else rawPath, else '/'; absent or null
\* queryStringParameters are empty.  With the flat fields present the outcome
\* does not depend on the nested fields being there or on what they hold.
\* So a missing path gives 404, a missing method on /hello 200, and /echo
\* with null query parameters 400.
C20_EventShapes ==
    \A s \in Slots :
        (Returned(s) /\ inv[s].event.mapping /\ UsualContext(s))
        => LET e == inv[s].event
           IN  /\ (IsSet(e.httpMethod) /\ IsSet(e.path))
                    => inv[s].out = OutcomeFor(s, StripNested(e))
               /\ (~IsSet(e.httpMethod) /\ e.rc = "map" /\ e.http = "map"
                      /\ IsSet(e.nested_method) /\ e.identity # "not_mapping")
                    => inv[s].out =
                         OutcomeFor(s, [ StripNested(e) EXCEPT
                                            !.httpMethod = e.nested_method ])
               /\ (~IsSet(e.path) /\ IsSet(e.rawPath) /\ e.rc = "absent")
                    => inv[s].out =
                         OutcomeFor(s, [ e EXCEPT !.path = e.rawPath,
                                                  !.rawPath = None ])
               /\ (~IsSet(e.path) /\ ~IsSet(e.rawPath) /\ e.rc = "absent")
                    => Enveloped(s) /\ StatusCode(s) = 404
               /\ (~IsSet(e.httpMethod) /\ e.path = Some("/hello") /\ e.rc = "absent")
                    => Enveloped(s) /\ StatusCode(s) = 200
               /\ (e.path = Some("/echo") /\ e.qsp \in { "absent", "null" }
                      /\ e.rc = "absent")
                    => Enveloped(s) /\ StatusCode(s) = 400

\* The response of the application that the envelope of slot s was made from
Routed(s) ==
    ClientGet(Get(inv[s].out.inner), inv[s].at, app_start_time, inv[s].env)

\* C21: every envelope returned, routed or of a fault, has an integer
\* statusCode, the status of the routed response or 500 on a fault; headers
\* with Content-Type application/json, X-Request-ID and X-Response-Time; and a
\* body that decodes as JSON and whose request_id is the X-Request-ID header,
\* which is the identifier of the context when there is a context.
C21_EnvelopeShape ==
    \A s \in Slots :
        Enveloped(s)
        => LET e == inv[s].out.envelope
           IN  /\ e.statusCode \in Int
               /\ e.statusCode = IF inv[s].out.fault THEN 500 ELSE Routed(s).status
               /\ { "ContentType", "XRequestID", "XResponseTime" } \subseteq DOMAIN e.headers
               /\ e.headers.ContentType = << "application/json" >>
               /\ DOMAIN e.body = { "json" }
               /\ Has(Decoded(s), "request_id")
               /\ Decoded(s).request_id = e.headers.XRequestID
               /\ inv[s].context # "none" => e.headers.XRequestID = CtxId

\* A fault envelope and, after it, a routed 404 envelope, each with a context
C21_Witness ==
    \E s \in Slots :
        /\ Enveloped(s) /\ ~inv[s].out.fault
        /\ inv[s].context = "full"
        /\ StatusCode(s) = 404
        /\ last = 500

\* C22: every envelope returned, on success, on 400 and 404 and on the 500
\* fault path, has Access-Control-Allow-Origin '*', Access-Control-Allow-Methods
\* 'GET, POST, OPTIONS' and Access-Control-Allow-Headers 'Content-Type'.
C22_CorsHeadersEverywhere ==
    \A s \in Slots :
        Enveloped(s)
        => LET h == inv[s].out.envelope.headers
           IN  /\ { "AllowOrigin", "AllowMethods", "AllowHeaders" } \subseteq DOMAIN h
               /\ h.AllowOrigin = << "*" >>
               /\ h.AllowMethods = << "GET, POST, OPTIONS" >>
               /\ h.AllowHeaders = << "Content-Type" >>

\* The keys the formatters write themselves
FixedKeys == { "timestamp", "level", "message", "request_id", "duration_ms",
               "aws_request_id" }

\* The entry of the formatter of the call, before the extra fields
Entry(call, now) ==
    IF call.formatter = "app" THEN AppEntry(call, now) ELSE LambdaEntry(call, now)

\* C23: in every record emitted, a fixed field (timestamp, level, message,
\* request_id, duration_ms, and aws_request_id in the adapter's formatter)
\* keeps the value the formatter gave it when the caller's extra fields have
\* a field of the same key.
C23_FixedFieldsWin ==
    emitted.kind = "record"
    => \A k \in FixedKeys \cap DOMAIN emitted.call.extra :
          k \in DOMAIN Entry(emitted.call, emitted.at)
              => emitted.record[k] = Entry(emitted.call, emitted.at)[k]

\* C24: every call of a logger method of the application produces one record
\* with at least timestamp, level and message, and with the request id and
\* the elapsed time when there is a request context; so within a request,
\* with no request context at all, and when the clock read fails; building
\* the record never raises into the caller.
C24_EmitAlwaysProducesRecord ==
    (emitted.kind # "none" /\ emitted.call.formatter = "app")
    => /\ emitted.kind = "record"
       /\ { "timestamp", "level", "message" } \subseteq DOMAIN emitted.record
       /\ emitted.call.ctx.bound
            => { "request_id", "duration_ms" } \subseteq DOMAIN emitted.record

\* C25: when psutil cannot be imported, GET /health is still answered 200
\* with status "healthy", and its metrics field holds the note "System
\* metrics unavailable"; it is never a 503.
C25_HealthWithoutMetrics ==
    \A s \in Slots :
        (Settled(s) /\ IsHealthCall(s) /\ req[s].env.psutil = "absent")
            => /\ HasResponse(s)
               /\ req[s].status = 200
               /\ req[s].body.status = << "healthy" >>
               /\ req[s].body.metrics = [ note |-> << "System metrics unavailable" >> ]

\* A health call without psutil is complete
C25_Witness ==
    \E s \in Slots :
        /\ req[s].phase = "done" /\ IsHealthCall(s)
        /\ req[s].env.psutil = "absent"
        /\ req[s].status = 200

\* The positions of the records of message m in the log of slot s
Positions(s, m) == { i \in 1..Len(req[s].log) : req[s].log[i].message = m }

\* The request of slot s has gone through the steps in their order: the
\* context is set and "Incoming request" logged before the handler or the
\* fallback runs, what the handler logs comes next, the headers are attached
\* and "Request completed" logged once the handler has run, and only then is
\* the request over.
InOrder(s) ==
    /\ req[s].phase # "idle"
         => /\ req[s].g.request_id # << >>
            /\ Positions(s, << "Incoming request" >>) = { 1 }
    /\ req[s].phase \in { "begun", "dispatched" }
         => /\ Positions(s, << "Request completed" >>) = { }
            /\ ~Has(req[s], "headers")
    /\ req[s].phase = "begun" => Len(req[s].log) = 1
    /\ req[s].phase = "done"
         => /\ Has(req[s], "headers")
            /\ Cardinality(Positions(s, << "Request completed" >>)) = 1
            /\ \A i \in 1..Len(req[s].log) :
                  req[s].log[i].level # "INFO"
                      => \A j \in Positions(s, << "Request completed" >>) : i < j

\* C26: for every request, matched or not, the steps come in this order:
\* context set, "Incoming request" logged, handler or 404 fallback, headers
\* attached, "Request completed" logged, response returned; each of the two
\* messages is logged exactly once.  A request is over only in phase "done".
C26_LifecycleOrder ==
    \A s \in Slots : InOrder(s) /\ req[s].phase # "raised"

HelloLog == << "Hello endpoint accessed successfully" >>

EchoProcessedLog == << "Echo endpoint processed successfully" >>

EchoLog(msg) == << "Echo endpoint accessed with message: " >> \o msg

\* The record is one of the messages the views leave for after_request
IsEndpointLog(record) ==
    \/ record.message \in { HelloLog, EchoProcessedLog }
    \/ record.message[1] = "Echo endpoint accessed with message: "

\* C27: the last info-level log call of a successful request is the message
\* of its endpoint: "Hello endpoint accessed successfully" for /hello, "Echo
\* endpoint accessed with message: <msg>" for /echo, and there the call before
\* it is "Echo endpoint processed successfully"; a request answered 400 or
\* 404 logs none of these messages, also after a successful request.
C27_EndpointLogIsLast ==
    \A s \in Slots :
        req[s].phase = "done"
        => LET log == req[s].log
               n   == Len(log)
           IN  /\ (req[s].status = 200 /\ req[s].in.path = "/hello")
                    => log[n] = LogRecord("INFO", HelloLog)
               /\ (req[s].status = 200 /\ req[s].in.path = "/echo")
                    => /\ log[n] = LogRecord("INFO", EchoLog(Get(req[s].in.msg)))
                       /\ log[n - 1] = LogRecord("INFO", EchoProcessedLog)
               /\ req[s].status \in { 400, 404 }
                    => \A i \in 1..n : ~IsEndpointLog(log[i])

\* A 404 is complete after a request answered 200
C27_Witness ==
    \E s \in Slots :
        /\ req[s].phase = "done"
        /\ req[s].status = 404
        /\ last = 200

\* before_request could not read the start time: g.start_time is the
\* substitute 0 although the identifier was generated from a later reading,
\* of a clock past its first millisecond
StartUnread(s) ==
    /\ req[s].g.start_time = 0
    /\ ~IsSet(req[s].in.hdr)
    /\ \E t \in TicksPerMs..MaxClock : req[s].g.request_id = GeneratedId(t)

\* C28: whenever the start time could not be read at begin, the elapsed time
\* the response reports in X-Response-Time is 0, not a value derived from a
\* substitute start time.  (The other half of the claim, a failed read at the
\* end of handling, is FailedEndReadReportsZero.)
C28_UnreadStartReportsZero ==
    \A s \in Slots :
        (req[s].phase = "done" /\ StartUnread(s))
        => req[s].headers.XResponseTime = IntStr(0)

\* A failed read in after_request: the header is "0" and the response keeps
\* the status and the body the view gave it
FailedEndReadReportsZero ==
    [][ \A s \in Sequential, oks \in Faults :
          (Finalize(s, oks) /\ ~oks[1])
          => /\ req'[s].phase = "done"
             /\ req'[s].headers.XResponseTime = IntStr(0)
             /\ req'[s].status = req[s].status
             /\ req'[s].body = req[s].body ]_vars

\* C29: a request that carries X-Request-ID with value v keeps v as its
\* correlation id whatever the clock does during begin: the context, the
\* X-Request-ID header of the response and the request_id of the body are v,
\* not a generated or fallback identifier.
C29_SuppliedIdSurvivesClockFailure ==
    \A s \in Slots :
        (req[s].phase # "idle" /\ IsSet(req[s].in.hdr))
        => LET v == Get(req[s].in.hdr)
           IN  /\ req[s].g.request_id = v
               /\ req[s].phase = "done"
                    => /\ req[s].headers.XRequestID = v
                       /\ Has(req[s].body, "request_id")
                            => req[s].body.request_id = v

\* The correlation id of the request in slot s, from its own header or from
\* the clock its own before_request read
OwnId(s) ==
    IF IsSet(req[s].in.hdr) THEN Get(req[s].in.hdr)
    ELSE GeneratedId(req[s].g.start_time)

\* The deferred endpoint message of the request in slot s, if it has one
OwnEndpointLog(s) ==
    IF req[s].in.path = "/hello" THEN Some(HelloLog)
    ELSE IF req[s].in.path = "/echo" /\ IsSet(req[s].in.msg)
    THEN Some(EchoLog(Get(req[s].in.msg)))
    ELSE None

\* A complete response carries the identifier and the endpoint message of
\* its own request
OwnResponse ==
    \A s \in Slots :
        req[s].phase = "done"
        => LET log == req[s].log
           IN  /\ req[s].headers.XRequestID = OwnId(s)
               /\ Has(req[s].body, "request_id")
                    => req[s].body.request_id = OwnId(s)
               /\ IF IsSet(OwnEndpointLog(s))
                  THEN /\ log[Len(log)].message = Get(OwnEndpointLog(s))
                       /\ \A i \in 1..(Len(log) - 1) :
                              log[i].message[1] # EchoLog(<< >>)[1]
                                /\ log[i].message # HelloLog
                  ELSE \A i \in 1..Len(log) : ~IsEndpointLog(log[i])

\* The step that completes a response measures the elapsed time from the
\* start time of its own request, and leaves the other requests as they are
OwnFinalisation ==
    \A s \in Slots :
        (req[s].phase = "dispatched" /\ req'[s].phase = "done")
        => /\ req'[s].headers.XResponseTime
                = FloatStr(clock - req[s].g.start_time)
           /\ req'[s].g = req[s].g
           /\ \A t \in Slots \ { s } : req'[t] = req[t]

\* C30: with the begin, handler and finalisation steps of concurrent requests
\* interleaved in any order, the X-Request-ID header, the request_id of the
\* body, the elapsed time and the deferred endpoint log message of each
\* response are those of its own request, never those of another in flight.
C30_ContextNeverShared == []OwnResponse /\ [][OwnFinalisation]_vars

\* A response is complete while another request, begun at another time with
\* another identifier and another message, is still being handled
C30_Witness ==
    \E s, t \in Slots :
        /\ req[s].phase = "done"
        /\ req[t].phase \in { "begun", "dispatched" }
        /\ req[s].g.request_id # req[t].g.request_id
        /\ req[s].g.start_time # req[t].g.start_time
        /\ IsSet(OwnEndpointLog(s))
        /\ IsSet(OwnEndpointLog(t))
        /\ OwnEndpointLog(s) # OwnEndpointLog(t)

====
